---- MODULE Spec2Model ----
(***************************************************************************)
(* Model of ovms::GCSFileSystem (src/src/gcsfilesystem.cpp): the path      *)
(* resolver, the existence/directory probes, the directory lister, the     *)
(* file materializer, the recursive tree mirror and the version loop.      *)
(*                                                                         *)
(* A std::string is a sequence of one-character strings.  Positions are    *)
(* 0-based as in C++; std::string::npos is the all-ones size_t, which the  *)
(* code stores in an int: it reads as -1 and npos + n wraps to n - 1.      *)
(***************************************************************************)
EXTENDS Integers, Sequences, FiniteSets, TLC

----------------------------------------------------------------------------
(* Bounds of the model *)

MaxObjects == 3

MaxFaults == 1

MaxDepth == 4

MaxVersion == 3

----------------------------------------------------------------------------
(* std::string *)

npos == -1

Ord(c) ==
    CASE c = "." -> 46 [] c = "/" -> 47 [] c = "0" -> 48 [] c = "1" -> 49
      [] c = "2" -> 50 [] c = "3" -> 51 [] c = "4" -> 52 [] c = "5" -> 53
      [] c = "6" -> 54 [] c = "7" -> 55 [] c = "8" -> 56 [] c = "9" -> 57
      [] c = ":" -> 58 [] c = "a" -> 97 [] c = "b" -> 98 [] c = "c" -> 99
      [] c = "g" -> 103 [] c = "i" -> 105 [] c = "l" -> 108 [] c = "m" -> 109
      [] c = "n" -> 110 [] c = "s" -> 115 [] c = "t" -> 116 [] c = "w" -> 119
      [] c = "z" -> 122

\* std::string operator< : lexicographic by character code
RECURSIVE StrLess(_, _)
StrLess(s, t) ==
    IF t = << >> THEN FALSE
    ELSE IF s = << >> THEN TRUE
    ELSE IF Ord(Head(s)) < Ord(Head(t)) THEN TRUE
    ELSE IF Ord(Head(s)) > Ord(Head(t)) THEN FALSE
    ELSE StrLess(Tail(s), Tail(t))

\* s has pat at 0-based position i
MatchAt(s, pat, i) ==
    /\ i >= 0
    /\ i + Len(pat) <= Len(s)
    /\ \A j \in 1..Len(pat) : s[i + j] = pat[j]

\* std::string::find(pat, pos): the first position >= pos, or npos
Find(s, pat, pos) ==
    IF \E i \in pos..Len(s) : MatchAt(s, pat, i)
    THEN CHOOSE i \in pos..Len(s) :
             MatchAt(s, pat, i) /\ \A j \in pos..(i - 1) : ~MatchAt(s, pat, j)
    ELSE npos

\* std::string::substr(pos, n) for pos <= size(); a count that is negative as
\* an int is a huge size_t, so it takes the rest of the string
Substr(s, pos, n) ==
    IF n < 0 \/ n > Len(s) - pos THEN SubSeq(s, pos + 1, Len(s))
    ELSE SubSeq(s, pos + 1, pos + n)

\* the sorted sequence of a set of strings: the iteration order of
\* std::set<std::string>, and the order of an object listing
Least(S) == CHOOSE x \in S : \A y \in S \ {x} : StrLess(x, y)

RECURSIVE SortedFrom(_, _)
SortedFrom(S, m) ==
    IF S = {m} THEN <<m>> ELSE <<m>> \o SortedFrom(S \ {m}, Least(S \ {m}))

SortedSeq(S) == IF S = {} THEN << >> ELSE SortedFrom(S, Least(S))

endsWith(s, suffix) ==
    /\ Len(suffix) <= Len(s)
    /\ SubSeq(s, Len(s) - Len(suffix) + 1, Len(s)) = suffix

appendSlash(name) ==
    IF name = << >> \/ name[Len(name)] = "/" THEN name ELSE name \o <<"/">>

\* joinPath({a, b})
joinPath(a, b) ==
    IF a = << >> THEN b
    ELSE IF b # << >> /\ b[1] = "/"
         THEN IF a[Len(a)] = "/" THEN a \o Tail(b) ELSE a \o b
         ELSE IF a[Len(a)] # "/" THEN a \o <<"/">> \o b ELSE a \o b

Digit(n) ==
    CASE n = 0 -> "0" [] n = 1 -> "1" [] n = 2 -> "2" [] n = 3 -> "3"
      [] n = 4 -> "4" [] n = 5 -> "5" [] n = 6 -> "6" [] n = 7 -> "7"
      [] n = 8 -> "8" [] n = 9 -> "9"

\* std::to_string of a model_version_t
RECURSIVE to_string(_)
to_string(n) ==
    IF n < 10 THEN <<Digit(n)>> ELSE to_string(n \div 10) \o <<Digit(n % 10)>>

----------------------------------------------------------------------------
(* Status codes *)

OK == "OK"

GCS_BUCKET_NOT_FOUND == "GCS_BUCKET_NOT_FOUND"

GCS_FILE_NOT_FOUND == "GCS_FILE_NOT_FOUND"

GCS_FILE_INVALID == "GCS_FILE_INVALID"

GCS_INVALID_ACCESS == "GCS_INVALID_ACCESS"

PATH_INVALID == "PATH_INVALID"

FILE_INVALID == "FILE_INVALID"

\* not a status: std::string::substr threw std::out_of_range out of the call
OUT_OF_RANGE == "std::out_of_range"

----------------------------------------------------------------------------
(* Path resolver *)

GCS_URL_PREFIX == <<"g", "s", ":", "/", "/">>

\* lines 49-59, given the two positions; substr(pos) throws for pos > size()
ParseSplit(path, bucket_start, bucket_end) ==
    IF bucket_end > bucket_start
    THEN [status |-> OK,
          bucket |-> Substr(path, bucket_start, bucket_end - bucket_start),
          object |-> Substr(path, bucket_end + 1, npos)]
    ELSE IF bucket_start > Len(path)
    THEN [status |-> OUT_OF_RANGE, bucket |-> << >>, object |-> << >>]
    ELSE IF Substr(path, bucket_start, npos) = << >>
    THEN [status |-> GCS_BUCKET_NOT_FOUND, bucket |-> << >>, object |-> << >>]
    ELSE [status |-> OK,
          bucket |-> Substr(path, bucket_start, npos),
          object |-> << >>]

\* line 48, given bucket_start
ParseFrom(path, bucket_start) ==
    ParseSplit(path, bucket_start, Find(path, <<"/">>, bucket_start))

parsePath(path) ==
    ParseFrom(path, Find(path, GCS_URL_PREFIX, 0) + Len(GCS_URL_PREFIX))

----------------------------------------------------------------------------
(* State *)

VARIABLES
    objects,     \* the bucket's snapshot: object name -> bytes
    listErr,     \* object names whose listing entry reports an error
    readErr,     \* object names whose read stream fails to open
    mkdirErr,    \* directory names the local filesystem refuses to create
    tempErr,     \* TRUE when no temporary path can be allocated
    localDirs,   \* local disk: the directories
    localFiles,  \* local disk: file path -> bytes
    pc,          \* "idle", "running" or "done"
    op,          \* the public operation called
    arg,         \* its arguments
    ret,         \* what it returned
    stack,       \* downloadFileFolder's activation records, innermost last
    rv,          \* the status a callee has just returned, or "none"
    dmv,         \* downloadModelVersions' locals
    log          \* history: one record per step of the tree mirror

vars == <<objects, listErr, readErr, mkdirErr, tempErr, localDirs, localFiles,
          pc, op, arg, ret, stack, rv, dmv, log>>

env == <<objects, listErr, readErr, mkdirErr, tempErr>>

----------------------------------------------------------------------------
(* The store-access capability (client_) over the snapshot *)

Bucket == <<"m">>

\* client_.ListObjects(bucket, Prefix(prefix)): one entry per matching object,
\* in name order, each a name or an error; an unknown bucket lists one error
Entries(names) ==
    [i \in 1..Len(names) |-> [ok |-> names[i] \notin listErr, name |-> names[i]]]

ListObjects(bucket, prefix) ==
    IF bucket # Bucket THEN <<[ok |-> FALSE, name |-> << >>]>>
    ELSE Entries(SortedSeq({k \in DOMAIN objects : MatchAt(k, prefix, 0)}))

\* client_.GetObjectMetadata(bucket, object) yields a value
GetObjectMetadata(bucket, object) ==
    bucket = Bucket /\ object \in DOMAIN objects

\* client_.ReadObject(bucket, object) yields a good stream
ReadObject(bucket, object) ==
    bucket = Bucket /\ object \in DOMAIN objects /\ object \notin readErr

----------------------------------------------------------------------------
(* Existence / directory oracle *)

\* lines 144-150: some entry of the listing is a value
AnyOk(l) == \E i \in DOMAIN l : l[i].ok

\* a variant that answers "not a directory" when the path does not parse
IsDirectoryParsedSwallowing(path, p) ==
    IF p.status # OK
    THEN [status |-> OK, is_directory |-> FALSE]
    ELSE IF path = << >>
    THEN [status |-> OK, is_directory |-> TRUE]
    ELSE [status |-> OK,
          is_directory |-> AnyOk(ListObjects(p.bucket, appendSlash(p.object)))]

\* lines 134-151, p being parsePath's outcome
IsDirectoryParsed(path, p) ==
    IF p.status # OK
    THEN [status |-> p.status, is_directory |-> FALSE]
    ELSE IF path = << >>
    THEN [status |-> OK, is_directory |-> TRUE]
    ELSE [status |-> OK,
          is_directory |-> AnyOk(ListObjects(p.bucket, appendSlash(p.object)))]

isDirectory(path) == IsDirectoryParsed(path, parsePath(path))

\* lines 119-126, d being isDirectory's outcome
ExistsAsDirectory(d) ==
    IF d.status # OK
    THEN [status |-> d.status, exists |-> FALSE]
    ELSE [status |-> OK, exists |-> d.is_directory]

\* lines 105-126, p being parsePath's outcome
FileExistsParsed(path, p) ==
    IF p.status # OK
    THEN [status |-> p.status, exists |-> FALSE]
    ELSE IF GetObjectMetadata(p.bucket, p.object)
    THEN [status |-> OK, exists |-> TRUE]
    ELSE ExistsAsDirectory(isDirectory(path))

fileExists(path) == FileExistsParsed(path, parsePath(path))

----------------------------------------------------------------------------
(* Directory lister *)

\* a variant that keeps the whole remainder of the name, "/" included
BaseFromWholeRest(name, name_start) == Substr(name, name_start, Len(name))

\* lines 181-182, given name_start
BaseFrom(name, name_start) ==
    Substr(name, name_start, Find(name, <<"/">>, name_start) - name_start)

\* lines 179-182: keep only basename
BaseName(name, full_directory) ==
    BaseFrom(name, Find(name, full_directory, 0) + Len(full_directory))

\* a variant that passes over the entries that report an error
RECURSIVE ContentsLoopSkipping(_, _, _, _)
ContentsLoopSkipping(l, i, full_directory, acc) ==
    IF i > Len(l) THEN [status |-> OK, contents |-> acc]
    ELSE IF ~l[i].ok \/ l[i].name = full_directory
    THEN ContentsLoopSkipping(l, i + 1, full_directory, acc)
    ELSE ContentsLoopSkipping(l, i + 1, full_directory,
                              acc \cup {BaseName(l[i].name, full_directory)})

\* lines 165-183: the loop of getDirectoryContents from entry i on; acc is
\* *contents
RECURSIVE ContentsLoop(_, _, _, _)
ContentsLoop(l, i, full_directory, acc) ==
    IF i > Len(l) THEN [status |-> OK, contents |-> acc]
    ELSE IF ~l[i].ok THEN [status |-> GCS_INVALID_ACCESS, contents |-> acc]
    ELSE IF l[i].name = full_directory
    THEN ContentsLoop(l, i + 1, full_directory, acc)
    ELSE ContentsLoop(l, i + 1, full_directory,
                      acc \cup {BaseName(l[i].name, full_directory)})

\* lines 165-185, given full_directory
ContentsUnder(bucket, full_directory, contents) ==
    ContentsLoop(ListObjects(bucket, full_directory), 1, full_directory,
                 contents)

\* lines 160-185, p being parsePath's outcome
ContentsParsed(p, contents) ==
    IF p.status # OK
    THEN [status |-> p.status, contents |-> contents]
    ELSE ContentsUnder(p.bucket, appendSlash(p.object), contents)

\* contents is the caller's set as the call finds it
getDirectoryContents(path, contents) ==
    ContentsParsed(parsePath(path), contents)

\* the erase loop of getDirectorySubdirs (keepDirs) and getDirectoryFiles
\* (~keepDirs) over the items not yet visited, in the set's order
RECURSIVE FilterLoop(_, _, _, _)
\* one turn of the loop, d being isDirectory's outcome for the item
FilterItem(path, items, acc, keepDirs, d) ==
    IF d.status # OK
    THEN [status |-> d.status, contents |-> acc]
    ELSE FilterLoop(path, Tail(items),
                    IF d.is_directory = keepDirs THEN acc
                    ELSE acc \ {Head(items)},
                    keepDirs)

FilterLoop(path, items, acc, keepDirs) ==
    IF items = << >> THEN [status |-> OK, contents |-> acc]
    ELSE FilterItem(path, items, acc, keepDirs,
                    isDirectory(joinPath(path, Head(items))))

\* lines 192-212 and 219-239, c being getDirectoryContents' outcome
Filtered(path, c, keepDirs) ==
    IF c.status # OK THEN c
    ELSE FilterLoop(path, SortedSeq(c.contents), c.contents, keepDirs)

getDirectorySubdirs(path, subdirs) ==
    Filtered(path, getDirectoryContents(path, subdirs), TRUE)

getDirectoryFiles(path, files) ==
    Filtered(path, getDirectoryContents(path, files), FALSE)

----------------------------------------------------------------------------
(* File materializer *)

\* lines 247-272, e and p being fileExists' and parsePath's outcomes
ReadChecked(e, p) ==
    IF e.status # OK THEN [status |-> e.status, contents |-> << >>]
    ELSE IF ~e.exists THEN [status |-> GCS_FILE_NOT_FOUND, contents |-> << >>]
    ELSE IF p.status # OK THEN [status |-> p.status, contents |-> << >>]
    ELSE IF ~ReadObject(p.bucket, p.object)
    THEN [status |-> GCS_FILE_INVALID, contents |-> << >>]
    ELSE [status |-> OK, contents |-> objects[p.object]]

readTextFile(path) == ReadChecked(fileExists(path), parsePath(path))

\* the directory part of a local path ("" for a bare name)
RECURSIVE Dirname(_)
Dirname(path) ==
    IF path = << >> THEN << >>
    ELSE IF path[Len(path)] = "/" THEN SubSeq(path, 1, Len(path) - 1)
    ELSE Dirname(SubSeq(path, 1, Len(path) - 1))

\* the last component of a local path
RECURSIVE Basename(_)
Basename(path) ==
    IF path = << >> \/ path[Len(path)] = "/" THEN << >>
    ELSE Basename(SubSeq(path, 1, Len(path) - 1)) \o <<path[Len(path)]>>

\* std::ofstream(local_path, binary) << contents: the file is replaced when
\* the stream opens; a stream that does not open writes nothing, unreported
WriteFile(files, dirs, local_path, contents) ==
    IF Dirname(local_path) \in dirs /\ local_path \notin dirs
    THEN [p \in DOMAIN files \cup {local_path} |->
             IF p = local_path THEN contents ELSE files[p]]
    ELSE files

\* files, dirs: the local disk as the call finds it
\* lines 280-287, r being readTextFile's outcome
SaveRead(r, local_path, files, dirs) ==
    IF r.status # OK THEN [status |-> r.status, files |-> files]
    ELSE [status |-> OK,
          files |-> WriteFile(files, dirs, local_path, r.contents)]

downloadFile(remote_path, local_path, files, dirs) ==
    SaveRead(readTextFile(remote_path), local_path, files, dirs)

\* CreateLocalDir(path): creates the directory, a no-op when it is there
CreateLocalDir(path, dirs) ==
    IF Basename(path) \in mkdirErr
    THEN [status |-> PATH_INVALID, dirs |-> dirs]
    ELSE [status |-> OK, dirs |-> dirs \cup {path}]

\* lines 387-392: ::remove deletes a file, or a directory that is empty
\* files, dirs: the local disk as the call finds it
deleteFileFolder(path, files, dirs) ==
    IF path \in DOMAIN files
    THEN [status |-> OK, dirs |-> dirs,
          files |-> [p \in DOMAIN files \ {path} |-> files[p]]]
    ELSE IF /\ path \in dirs
            /\ \A p \in (DOMAIN files \cup dirs) : Dirname(p) # path
    THEN [status |-> OK, dirs |-> dirs \ {path}, files |-> files]
    ELSE [status |-> FILE_INVALID, dirs |-> dirs, files |-> files]

acceptedFiles == {<<".", "b", "i", "n">>}

\* the any_of test of downloadFileFolder's file loop
Accepted(f) == \E x \in acceptedFiles : Len(f) > 0 /\ endsWith(f, x)

----------------------------------------------------------------------------
(* Inputs *)

KeyUniverse ==
    { <<"a", "/", "b", ".", "b", "i", "n">>,
      <<"a", "/">>,
      <<"a", "/", "/", "b">>,
      <<"a", "/", "b", ".", "b", "i", "n", "/", "c">>,
      <<"1", "/", "w", ".", "b", "i", "n">>,
      <<"1", "/", "n">>,
      <<"2", "/", "s", "/", "w", ".", "b", "i", "n">>,
      <<"3", "/", "w", ".", "b", "i", "n">> }

\* the bytes of an object of the snapshot: every object holds different bytes
BytesOf(k) == <<"d", ":">> \o k

Paths ==
    { << >>,
      GCS_URL_PREFIX,
      GCS_URL_PREFIX \o <<"/", "a">>,
      GCS_URL_PREFIX \o <<"m">>,
      GCS_URL_PREFIX \o <<"m", "/">>,
      GCS_URL_PREFIX \o <<"m", "/", "a">>,
      GCS_URL_PREFIX \o <<"m", "/", "a", "/">>,
      GCS_URL_PREFIX \o <<"m", "/", "a", "/", "b", ".", "b", "i", "n">>,
      GCS_URL_PREFIX \o <<"m", "/", "1">>,
      GCS_URL_PREFIX \o <<"m", "/", "2">> }

\* what a caller's result set may hold before a listing call
CallerSets == {{}, {<<"z">>}}

DirNames == {<<"a">>, <<"s">>}

LocalRoot == <<"l">>

LocalFile == <<"l", "/", "f">>

TempPath == <<"t">>

ModelRoots == {GCS_URL_PREFIX \o <<"m">>, GCS_URL_PREFIX \o <<"m", "/">>}

\* the version lists: strictly increasing, over 1..MaxVersion
RECURSIVE IncreasingLists(_)
IncreasingLists(n) ==
    IF n = 0 THEN {<< >>}
    ELSE UNION {{l, Append(l, n)} : l \in IncreasingLists(n - 1)}

VersionLists == IncreasingLists(MaxVersion)

NoFiles == [x \in {} |-> << >>]

NoDmv == [local_path |-> << >>, result |-> OK, versions |-> << >>]

Init ==
    /\ \E S \in SUBSET KeyUniverse :
          /\ Cardinality(S) <= MaxObjects
          /\ objects = [k \in S |-> BytesOf(k)]
          /\ listErr \in SUBSET S
          /\ readErr \in SUBSET S
    /\ mkdirErr \in SUBSET DirNames
    /\ tempErr \in BOOLEAN
    /\ Cardinality(listErr) + Cardinality(readErr) + Cardinality(mkdirErr)
          + (IF tempErr THEN 1 ELSE 0) <= MaxFaults
    /\ localDirs = {LocalRoot}
    /\ localFiles = NoFiles
    /\ pc = "idle"
    /\ op = "none"
    /\ arg = [path |-> << >>]
    /\ ret = [status |-> "none"]
    /\ stack = << >>
    /\ rv = "none"
    /\ dmv = NoDmv
    /\ log = << >>

----------------------------------------------------------------------------
(* The operations that finish in one step *)

Answer(name, a, r) ==
    /\ pc = "idle"
    /\ pc' = "done"
    /\ op' = name
    /\ arg' = a
    /\ ret' = r
    /\ UNCHANGED <<env, localDirs, stack, rv, dmv, log>>

Call_parsePath ==
    \E path \in Paths :
        /\ Answer("parsePath", [path |-> path], parsePath(path))
        /\ UNCHANGED localFiles

Call_fileExists ==
    \E path \in Paths :
        /\ Answer("fileExists", [path |-> path], fileExists(path))
        /\ UNCHANGED localFiles

Call_isDirectory ==
    \E path \in Paths :
        /\ Answer("isDirectory", [path |-> path], isDirectory(path))
        /\ UNCHANGED localFiles

Call_getDirectoryContents ==
    \E path \in Paths, c \in CallerSets :
        /\ Answer("getDirectoryContents", [path |-> path, before |-> c],
                  getDirectoryContents(path, c))
        /\ UNCHANGED localFiles

Call_getDirectorySubdirs ==
    \E path \in Paths, c \in CallerSets :
        /\ Answer("getDirectorySubdirs", [path |-> path, before |-> c],
                  getDirectorySubdirs(path, c))
        /\ UNCHANGED localFiles

Call_getDirectoryFiles ==
    \E path \in Paths, c \in CallerSets :
        /\ Answer("getDirectoryFiles", [path |-> path, before |-> c],
                  getDirectoryFiles(path, c))
        /\ UNCHANGED localFiles

Call_readTextFile ==
    \E path \in Paths :
        /\ Answer("readTextFile", [path |-> path], readTextFile(path))
        /\ UNCHANGED localFiles

Call_downloadFile ==
    \E path \in Paths :
        \E r \in {downloadFile(path, LocalFile, localFiles, localDirs)} :
            /\ Answer("downloadFile", [path |-> path, local_path |-> LocalFile],
                      [status |-> r.status])
            /\ localFiles' = r.files

Call_deleteFileFolder ==
    \E path \in {LocalRoot, LocalFile} :
        \E r \in {deleteFileFolder(path, localFiles, localDirs)} :
            /\ pc = "idle"
            /\ pc' = "done"
            /\ op' = "deleteFileFolder"
            /\ arg' = [path |-> path]
            /\ ret' = [status |-> r.status]
            /\ localFiles' = r.files
            /\ localDirs' = r.dirs
            /\ UNCHANGED <<env, stack, rv, dmv, log>>

----------------------------------------------------------------------------
(* Tree mirror: downloadFileFolder, one activation record per call *)

Frame(path, local_path) ==
    [path |-> path, local_path |-> local_path, status |-> "none",
     dirs |-> << >>, files |-> << >>, phase |-> "entry"]

Depth == Len(stack)

Top == stack[Depth]

Event(kind, node, status, cause) ==
    [kind |-> kind, depth |-> Depth, node |-> node, status |-> status,
     cause |-> cause]

\* the innermost call returns status to its caller
Return(status, cause, events) ==
    /\ stack' = SubSeq(stack, 1, Depth - 1)
    /\ rv' = status
    /\ log' = log \o events \o <<Event("return", Top.path, status, cause)>>

SetTop(f) == [stack EXCEPT ![Depth] = f]

Call_downloadFileFolder ==
    \E path \in Paths :
        /\ pc = "idle"
        /\ pc' = "running"
        /\ op' = "downloadFileFolder"
        /\ arg' = [path |-> path, local_path |-> LocalRoot]
        /\ stack' = <<Frame(path, LocalRoot)>>
        /\ UNCHANGED <<env, localDirs, localFiles, ret, rv, dmv, log>>

\* lines 322-345: the directory probe and the two listings
DFF_Probe ==
    /\ pc = "running" /\ Depth > 0 /\ Top.phase = "entry"
    /\ \E d \in {isDirectory(Top.path)},
          sd \in {getDirectorySubdirs(Top.path, {})},
          fl \in {getDirectoryFiles(Top.path, {})} :
           IF d.status = OUT_OF_RANGE
           THEN Return(OUT_OF_RANGE, "probe",
                       <<Event("probe", Top.path, OUT_OF_RANGE, "")>>)
           ELSE IF d.status # OK \/ ~d.is_directory
           THEN Return(GCS_FILE_NOT_FOUND, "probe",
                       <<Event("probe", Top.path, GCS_FILE_NOT_FOUND, "")>>)
           ELSE IF sd.status # OK
           THEN Return(sd.status, "list",
                       <<Event("probe", Top.path, OK, ""),
                         Event("list", Top.path, sd.status, "")>>)
           ELSE IF fl.status # OK
           THEN Return(fl.status, "list",
                       <<Event("probe", Top.path, OK, ""),
                         Event("list", Top.path, fl.status, "")>>)
           ELSE /\ stack' = SetTop([Top EXCEPT !.status = fl.status,
                                               !.dirs = SortedSeq(sd.contents),
                                               !.files = SortedSeq(fl.contents),
                                               !.phase = "loop"])
                /\ log' = Append(log, Event("probe", Top.path, OK, ""))
                /\ UNCHANGED rv
    /\ UNCHANGED <<env, localDirs, localFiles, pc, op, arg, ret, dmv>>

\* lines 347-357: the next subdirectory: its local directory and the call
DFF_Subdir ==
    /\ pc = "running" /\ Depth > 0 /\ Depth < MaxDepth
    /\ Top.phase = "loop" /\ Top.dirs # << >>
    /\ \E remote_dir_path \in {joinPath(Top.path, Head(Top.dirs))},
          local_dir_path \in {joinPath(Top.local_path, Head(Top.dirs))} :
         \E mk \in {CreateLocalDir(local_dir_path, localDirs)} :
           /\ localDirs' = mk.dirs
           /\ IF mk.status # OK
              THEN Return(Top.status, "mkdir",
                          <<Event("mkdir", remote_dir_path, mk.status, "")>>)
              ELSE /\ stack' = Append(SetTop([Top EXCEPT !.phase = "call"]),
                                      Frame(remote_dir_path, local_dir_path))
                   /\ log' = Append(log, Event("mkdir", remote_dir_path, OK, ""))
                   /\ UNCHANGED rv
    /\ UNCHANGED <<env, localFiles, pc, op, arg, ret, dmv>>

\* lines 356-363: the recursive call has returned
DFF_SubdirReturned ==
    /\ pc = "running" /\ Depth > 0 /\ Top.phase = "call" /\ rv # "none"
    /\ \E node \in {joinPath(Top.path, Head(Top.dirs))} :
           IF rv # OK
           THEN Return(rv, "descend", <<Event("descend", node, rv, "")>>)
           ELSE /\ stack' = SetTop([Top EXCEPT !.dirs = Tail(Top.dirs),
                                               !.phase = "loop"])
                /\ rv' = "none"
                /\ log' = Append(log, Event("descend", node, OK, ""))
    /\ UNCHANGED <<env, localDirs, localFiles, pc, op, arg, ret, dmv>>

\* lines 365-381: the next file
DFF_File ==
    /\ pc = "running" /\ Depth > 0
    /\ Top.phase = "loop" /\ Top.dirs = << >> /\ Top.files # << >>
    /\ \E f \in {Head(Top.files)},
          remote_file_path \in {joinPath(Top.path, Head(Top.files))},
          next \in {SetTop([Top EXCEPT !.files = Tail(Top.files)])} :
         \E dl \in {IF Accepted(f)
                    THEN downloadFile(remote_file_path,
                                      joinPath(Top.local_path, f),
                                      localFiles, localDirs)
                    ELSE [status |-> OK, files |-> localFiles]} :
           IF ~Accepted(f)
           THEN /\ stack' = next
                /\ log' = Append(log, Event("skip", remote_file_path, OK, ""))
                /\ UNCHANGED <<rv, localFiles>>
           ELSE /\ localFiles' = dl.files
                /\ IF dl.status # OK
                   THEN Return(dl.status, "download",
                               <<Event("download", remote_file_path,
                                       dl.status, "")>>)
                   ELSE /\ stack' = next
                        /\ log' = Append(log,
                                     Event("download", remote_file_path, OK, ""))
                        /\ UNCHANGED rv
    /\ UNCHANGED <<env, localDirs, pc, op, arg, ret, dmv>>

\* line 382
DFF_End ==
    /\ pc = "running" /\ Depth > 0
    /\ Top.phase = "loop" /\ Top.dirs = << >> /\ Top.files = << >>
    /\ Return(OK, "end", << >>)
    /\ UNCHANGED <<env, localDirs, localFiles, pc, op, arg, ret, dmv>>

\* the outermost downloadFileFolder of a direct call has returned
DFF_Done ==
    /\ pc = "running" /\ op = "downloadFileFolder" /\ Depth = 0 /\ rv # "none"
    /\ pc' = "done"
    /\ ret' = [status |-> rv]
    /\ rv' = "none"
    /\ UNCHANGED <<env, localDirs, localFiles, op, arg, stack, dmv, log>>

----------------------------------------------------------------------------
(* Version fetch orchestrator: downloadModelVersions *)

\* createTempPath(local_path): a fresh directory, created
createTempPath ==
    IF tempErr THEN [status |-> PATH_INVALID, local_path |-> << >>]
    ELSE [status |-> OK, local_path |-> TempPath]

\* lines 301-310: base, a "/" unless it ends with one, the version number
VersionPath(base, ver) ==
    (IF endsWith(base, <<"/">>) THEN base ELSE base \o <<"/">>) \o to_string(ver)

\* lines 293-299
Call_downloadModelVersions ==
    \E path \in ModelRoots, versions \in VersionLists :
        /\ pc = "idle"
        /\ op' = "downloadModelVersions"
        /\ arg' = [path |-> path, versions |-> versions]
        /\ \E sc \in {createTempPath} :
               IF sc.status # OK
               THEN /\ pc' = "done"
                    /\ ret' = [status |-> sc.status]
                    /\ UNCHANGED <<localDirs, dmv>>
               ELSE /\ pc' = "running"
                    /\ localDirs' = localDirs \cup {sc.local_path}
                    /\ dmv' = [local_path |-> sc.local_path, result |-> OK,
                               versions |-> versions]
                    /\ UNCHANGED ret
        /\ UNCHANGED <<env, localFiles, stack, rv, log>>

\* lines 300-312: the next version: its paths, its local directory, the call
DMV_Version ==
    /\ pc = "running" /\ op = "downloadModelVersions"
    /\ Depth = 0 /\ rv = "none" /\ dmv.versions # << >>
    /\ \E versionpath \in {VersionPath(arg.path, Head(dmv.versions))},
          lpath \in {VersionPath(dmv.local_path, Head(dmv.versions))} :
           /\ localDirs' = localDirs \cup {lpath}
           /\ stack' = <<Frame(versionpath, lpath)>>
    /\ UNCHANGED <<env, localFiles, pc, op, arg, ret, rv, dmv, log>>

\* a variant whose result is the status of the version just returned
DMV_VersionReturnedOverwriting ==
    /\ pc = "running" /\ op = "downloadModelVersions"
    /\ Depth = 0 /\ rv # "none"
    /\ dmv' = [dmv EXCEPT !.result = rv, !.versions = Tail(@)]
    /\ rv' = "none"
    /\ UNCHANGED <<env, localDirs, localFiles, pc, op, arg, ret, stack, log>>

\* lines 312-317: downloadFileFolder has returned for the version
DMV_VersionReturned ==
    /\ pc = "running" /\ op = "downloadModelVersions"
    /\ Depth = 0 /\ rv # "none"
    /\ dmv' = [dmv EXCEPT !.result = IF rv # OK THEN rv ELSE @,
                          !.versions = Tail(@)]
    /\ rv' = "none"
    /\ UNCHANGED <<env, localDirs, localFiles, pc, op, arg, ret, stack, log>>

\* line 319
DMV_Return ==
    /\ pc = "running" /\ op = "downloadModelVersions"
    /\ Depth = 0 /\ rv = "none" /\ dmv.versions = << >>
    /\ pc' = "done"
    /\ ret' = [status |-> dmv.result]
    /\ UNCHANGED <<env, localDirs, localFiles, op, arg, stack, rv, dmv, log>>

----------------------------------------------------------------------------

Next ==
    \/ Call_parsePath
    \/ Call_fileExists
    \/ Call_isDirectory
    \/ Call_getDirectoryContents
    \/ Call_getDirectorySubdirs
    \/ Call_getDirectoryFiles
    \/ Call_readTextFile
    \/ Call_downloadFile
    \/ Call_downloadFileFolder
    \/ DFF_Probe
    \/ DFF_Subdir
    \/ DFF_SubdirReturned
    \/ DFF_File
    \/ DFF_End
    \/ DFF_Done
    \/ Call_downloadModelVersions
    \/ DMV_Version
    \/ DMV_VersionReturned
    \/ DMV_Return
    \/ Call_deleteFileFolder

Spec == Init /\ [][Next]_vars

----------------------------------------------------------------------------
(* Vocabulary of the properties *)

Done(name) == pc = "done" /\ op = name

\* s begins with pre
HasPrefix(s, pre) == Len(pre) <= Len(s) /\ SubSeq(s, 1, Len(pre)) = pre

\* s without its first n characters
Drop(s, n) == SubSeq(s, n + 1, Len(s))

\* s ends with suf
EndsIn(s, suf) == Len(suf) <= Len(s) /\ Drop(s, Len(s) - Len(suf)) = suf

\* s up to, not including, its first "/" (all of s when it has none)
RECURSIVE UpToSlash(_)
UpToSlash(s) ==
    IF s = << >> \/ Head(s) = "/" THEN << >>
    ELSE <<Head(s)>> \o UpToSlash(Tail(s))

\* what follows the first "/" of s ("" when it has none)
RECURSIVE AfterSlash(_)
AfterSlash(s) ==
    IF s = << >> THEN << >>
    ELSE IF Head(s) = "/" THEN Tail(s)
    ELSE AfterSlash(Tail(s))

NoFaults == listErr = {} /\ readErr = {} /\ mkdirErr = {} /\ ~tempErr

----------------------------------------------------------------------------
(* The parts of the program on their own *)

\* the snapshots whose only failures are listing entries that report an error
InitListing == Init /\ readErr = {} /\ mkdirErr = {} /\ ~tempErr

\* the directory oracle and the listing operations
NextListing ==
    \/ Call_isDirectory
    \/ Call_getDirectoryContents
    \/ Call_getDirectorySubdirs
    \/ Call_getDirectoryFiles

SpecListing == InitListing /\ [][NextListing]_vars

\* the operations composed of parsePath and the listing
NextComposing ==
    \/ Call_fileExists
    \/ Call_isDirectory
    \/ Call_getDirectorySubdirs
    \/ Call_getDirectoryFiles
    \/ Call_readTextFile
    \/ Call_downloadFile
    \/ Call_downloadFileFolder
    \/ DFF_Probe
    \/ DFF_Subdir
    \/ DFF_SubdirReturned
    \/ DFF_File
    \/ DFF_End
    \/ DFF_Done

SpecComposing == InitListing /\ [][NextComposing]_vars

\* the keys under a version directory of the bucket
VersionKeys ==
    {k \in KeyUniverse :
        \E v \in 1..MaxVersion : HasPrefix(k, to_string(v) \o <<"/">>)}

\* the snapshots that hold model versions only, with every kind of failure
InitVersions == Init /\ DOMAIN objects \subseteq VersionKeys

\* downloadModelVersions and the mirror it calls
NextVersions ==
    \/ Call_downloadModelVersions
    \/ DMV_Version
    \/ DMV_VersionReturned
    \/ DMV_Return
    \/ DFF_Probe
    \/ DFF_Subdir
    \/ DFF_SubdirReturned
    \/ DFF_File
    \/ DFF_End

SpecVersions == InitVersions /\ [][NextVersions]_vars

----------------------------------------------------------------------------
(* C5 *)

\* C5: for every URI that begins with "gs://", parsePath returns OK with the
\* bucket being what lies between the prefix and the first following "/" and
\* the key being what follows that "/", and it returns GCS_BUCKET_NOT_FOUND
\* whenever that bucket segment is empty.
C5_ParsePathSplitsAtFirstSlash ==
    (Done("parsePath") /\ HasPrefix(arg.path, GCS_URL_PREFIX)) =>
        IF UpToSlash(Drop(arg.path, Len(GCS_URL_PREFIX))) = << >>
        THEN ret.status = GCS_BUCKET_NOT_FOUND
        ELSE ret = [status |-> OK,
                    bucket |-> UpToSlash(Drop(arg.path, Len(GCS_URL_PREFIX))),
                    object |-> AfterSlash(Drop(arg.path, Len(GCS_URL_PREFIX)))]

----------------------------------------------------------------------------
(* C6 *)

\* C6: isDirectory("") returns OK with is_directory = TRUE in every state of
\* the store.
C6_EmptyPathIsDirectory ==
    (Done("isDirectory") /\ arg.path = << >>) =>
        ret = [status |-> OK, is_directory |-> TRUE]

----------------------------------------------------------------------------
(* C1 *)

FailFastCauses == {"probe", "mkdir", "descend", "download"}

\* C1: a downloadFileFolder call that returns because its directory probe, a
\* CreateLocalDir, a recursive downloadFileFolder or a downloadFile failed
\* never returns OK.
C1_FirstErrorIsReturned ==
    \A i \in DOMAIN log :
        (log[i].kind = "return" /\ log[i].cause \in FailFastCauses) =>
            log[i].status # OK

----------------------------------------------------------------------------
(* C3 *)

\* a step of the mirror has failed
StepFailed == \E i \in DOMAIN log : log[i].kind # "return" /\ log[i].status # OK

\* the nodes processed so far: directories made or entered, files downloaded
Processed ==
    {i \in DOMAIN log : log[i].kind \in {"probe", "mkdir", "download", "skip"}}

\* C3: once a step of downloadFileFolder has failed, no further node is
\* created, descended into or downloaded at any recursion level, and the
\* local directories and files written before the failure stay as they are.
C3_NothingAfterFailure ==
    [][(op = "downloadFileFolder" /\ StepFailed) =>
          /\ localDirs' = localDirs
          /\ localFiles' = localFiles
          /\ Cardinality(Processed') = Cardinality(Processed)]_vars

----------------------------------------------------------------------------
(* C7 *)

\* C7: every recursive downloadFileFolder call is made on a strictly deeper
\* remote path than its caller's, so that the recursion ends on any finite
\* snapshot.
C7_RecursionDescends ==
    \A i \in 1..(Depth - 1) : Len(stack[i + 1].path) > Len(stack[i].path)

----------------------------------------------------------------------------
(* The flat namespace read as a tree *)

Keys == DOMAIN objects

BucketRoot == GCS_URL_PREFIX \o Bucket

\* path names the bucket of the snapshot: its root, or a key in it
InBucket(path) == path = BucketRoot \/ HasPrefix(path, BucketRoot \o <<"/">>)

\* the key of such a path
KeyOf(path) == Drop(path, Len(BucketRoot) + 1)

\* the keys under a prefix, and those among them whose listing entry fails
Under(prefix) == {k \in Keys : HasPrefix(k, prefix)}

HasErr(prefix) == Under(prefix) \cap listErr # {}

HasOk(prefix) == Under(prefix) \ listErr # {}

\* an error entry comes before every good entry of the listing
ErrMet(prefix) ==
    \E k \in Under(prefix) \cap listErr :
        \A j \in Under(prefix) \ listErr : StrLess(k, j)

\* the names one level below a prefix
ChildNames(prefix) ==
    {UpToSlash(Drop(k, Len(prefix))) : k \in Under(prefix) \ {prefix}}

\* name n below the prefix has keys below it
IsSubdir(prefix, n) == Under(prefix \o n \o <<"/">>) # {}

ListingOps == {"getDirectoryContents", "getDirectorySubdirs", "getDirectoryFiles"}

\* what a listing operation leaves in a set that held the names in `names`
ListingOf(name, prefix, names) ==
    CASE name = "getDirectoryContents" -> names
      [] name = "getDirectorySubdirs" -> {n \in names : IsSubdir(prefix, n)}
      [] name = "getDirectoryFiles" -> {n \in names : ~IsSubdir(prefix, n)}

----------------------------------------------------------------------------
(* C10 *)

\* a directory path in normal form: a non-empty key without a trailing "/"
NormalDir(path) ==
    /\ HasPrefix(path, BucketRoot \o <<"/">>)
    /\ KeyOf(path) # << >>
    /\ path[Len(path)] # "/"

PathA == BucketRoot \o <<"/", "a">>

PathAB == BucketRoot \o <<"/", "a", "/", "b", ".", "b", "i", "n">>

KeyAB == <<"a", "/", "b", ".", "b", "i", "n">>

\* C10: on an error-free snapshot, for a directory path with key k,
\* getDirectoryContents is the set of segments that follow k/ in the keys
\* under it (the key k/ itself giving none), getDirectorySubdirs
\* is the names n with a key under k/n/, getDirectoryFiles the other names;
\* with the one object a/b.bin, a is a directory and a/b.bin is not.
C10_ListingIsOneLevel ==
    /\ (pc = "done" /\ op \in ListingOps /\ listErr = {} /\ arg.before = {}
            /\ NormalDir(arg.path)) =>
           /\ ret.status = OK
           /\ ret.contents =
                  ListingOf(op, KeyOf(arg.path) \o <<"/">>,
                            ChildNames(KeyOf(arg.path) \o <<"/">>))
    /\ (Done("isDirectory") /\ listErr = {} /\ Keys = {KeyAB}) =>
           /\ arg.path = PathA => ret = [status |-> OK, is_directory |-> TRUE]
           /\ arg.path = PathAB => ret = [status |-> OK, is_directory |-> FALSE]

C10_Witness ==
    /\ Done("getDirectorySubdirs")
    /\ listErr = {}
    /\ arg.path = BucketRoot \o <<"/", "2">>
    /\ arg.before = {}
    /\ ret.contents = {<<"s">>}

----------------------------------------------------------------------------
(* C8 *)

\* C8: when an entry of the listing reports an error, a listing operation
\* returns GCS_INVALID_ACCESS and the caller's set is as it was before the
\* call.
C8_NoPartialSet ==
    (pc = "done" /\ op \in ListingOps /\ InBucket(arg.path)
        /\ HasErr(appendSlash(KeyOf(arg.path)))) =>
        /\ ret.status = GCS_INVALID_ACCESS
        /\ ret.contents = arg.before

\* C8, amended: when an entry of the listing reports an error, a listing
\* operation returns GCS_INVALID_ACCESS and never OK, and the caller's set
\* holds what it held plus names enumerated before the error; when no entry
\* reports an error it returns OK with the complete set: what the set held
\* and every name one level down, filtered as the operation filters.
C8_NoPartialSuccess ==
    (pc = "done" /\ op \in ListingOps /\ InBucket(arg.path)) =>
        IF HasErr(appendSlash(KeyOf(arg.path)))
        THEN /\ ret.status = GCS_INVALID_ACCESS
             /\ arg.before \subseteq ret.contents
             /\ ret.contents \subseteq
                    arg.before \cup ChildNames(appendSlash(KeyOf(arg.path)))
        ELSE /\ ret.status = OK
             /\ ret.contents =
                    ListingOf(op, appendSlash(KeyOf(arg.path)),
                        arg.before \cup ChildNames(appendSlash(KeyOf(arg.path))))

C8_Witness ==
    /\ pc = "done" /\ op \in ListingOps
    /\ ret.status = GCS_INVALID_ACCESS
    /\ arg.before = {}
    /\ ret.contents # {}

----------------------------------------------------------------------------
(* C9 *)

ComposingOps ==
    {"fileExists", "isDirectory", "getDirectorySubdirs", "getDirectoryFiles",
     "readTextFile", "downloadFile", "downloadFileFolder"}

\* the operations that answer from the object itself when it exists
ObjectFirstOps == {"fileExists", "readTextFile", "downloadFile"}

\* the call meets a listing entry that reports an error
MeetsListErr ==
    /\ InBucket(arg.path)
    /\ CASE op = "isDirectory" -> ErrMet(appendSlash(KeyOf(arg.path)))
         [] op \in ObjectFirstOps ->
                /\ KeyOf(arg.path) \notin Keys
                /\ ErrMet(appendSlash(KeyOf(arg.path)))
         [] OTHER -> HasErr(appendSlash(KeyOf(arg.path)))

----------------------------------------------------------------------------
(* C4 *)

\* an object no other object lies below
Leaf(k) == Under(k \o <<"/">>) = {}

\* the objects under a prefix the mirror is to copy
Wanted(prefix) ==
    {k \in Under(prefix) :
        /\ Leaf(k)
        /\ Basename(k) # << >>
        /\ \E x \in acceptedFiles : EndsIn(Basename(k), x)}

\* the local counterpart of what lies `rel` below the mirrored directory
LocalOf(local, rel) == local \o <<"/">> \o rel

\* the directories at every depth under a prefix, relative to it
SubdirsBelow(prefix) ==
    UNION {{SubSeq(Drop(k, Len(prefix)), 1, i - 1) :
               i \in {j \in 1..(Len(k) - Len(prefix)) :
                         k[Len(prefix) + j] = "/"}} :
           k \in Under(prefix)}

\* C4: when downloadFileFolder returns OK on a snapshot of the store that is
\* free of errors, the local tree holds a directory for every remote
\* subdirectory at every depth, and a file with the object's bytes for
\* exactly the leaf objects whose name is not empty and ends with an
\* accepted suffix.
C4_MirrorIsComplete ==
    (Done("downloadFileFolder") /\ ret.status = OK
        /\ listErr = {} /\ readErr = {}) =>
        /\ InBucket(arg.path)
        /\ \A d \in SubdirsBelow(appendSlash(KeyOf(arg.path))) :
               LocalOf(arg.local_path, d) \in localDirs
        /\ DOMAIN localFiles =
               {LocalOf(arg.local_path,
                        Drop(k, Len(appendSlash(KeyOf(arg.path))))) :
                    k \in Wanted(appendSlash(KeyOf(arg.path)))}
        /\ \A k \in Wanted(appendSlash(KeyOf(arg.path))) :
               localFiles[LocalOf(arg.local_path,
                                  Drop(k, Len(appendSlash(KeyOf(arg.path)))))]
                   = objects[k]

----------------------------------------------------------------------------
(* C2 *)

IsOuterReturn(e) == e.kind = "return" /\ e.depth = 1

\* what each outermost downloadFileFolder call returned, in call order
OuterReturns == SelectSeq(log, IsOuterReturn)

IsOuterProbe(e) == e.kind = "probe" /\ e.depth = 1

\* the remote paths the outermost downloadFileFolder calls were made on
OuterCalls == SelectSeq(log, IsOuterProbe)

\* the last status of a sequence of returns that is not OK, OK if all are
RECURSIVE LastFailure(_)
LastFailure(rs) ==
    IF rs = << >> THEN OK
    ELSE IF rs[Len(rs)].status # OK THEN rs[Len(rs)].status
    ELSE LastFailure(SubSeq(rs, 1, Len(rs) - 1))

====
